---------------------------- MODULE Spec2Model ----------------------------
(***************************************************************************)
(* IG publication dashboard: the data load of src/src/IGTable.tsx.         *)
(*                                                                         *)
(* loadData reads the project list, starts one async pipeline per project  *)
(* (repository query, optional package-list fetch, branch classification,  *)
(* version reconciliation), gathers the records with Promise.all and hands *)
(* them to the component state with setIgs.                                *)
(*                                                                         *)
(* What the network answers is fixed in the initial state (projects,       *)
(* remote); how each read settles (rejects, resolves with an unusable body,*)
(* resolves with the payload) and in which order is chosen by the actions. *)
(*                                                                         *)
(* Version strings are sequences of one-character strings, so that         *)
(* replace(/^v/, "") and toLowerCase() are computed and not assumed.       *)
(* A timestamp is a count of milliseconds written in base MsPerDay,        *)
(* [d |-> days, ms |-> rest] standing for d * MsPerDay + ms with           *)
(* 0 <= ms < MsPerDay: 90 days of milliseconds exceed TLC's integers.      *)
(***************************************************************************)
EXTENDS Integers, Sequences, FiniteSets, TLC

VARIABLES
    phase,           \* loadData: "config" | "gather" | "shown" | "failed"
    projects,        \* config.igs, the parsed project list
    remote,          \* per project: what the two endpoints hold for it
    pc,              \* per project: where its async callback stands
    locals,          \* per project: the callback's variables kept across the manifest await
    allIgs,          \* per project: the value its promise fulfilled with
    igs,             \* the component state set by setIgs
    repoQueries,     \* per project: fetch calls issued to the GraphQL endpoint
    manifestFetches, \* per project: fetch calls issued for package-list.json
    nowReads,        \* per project: the Date.now() values read, one per classified branch
    manifestResult,  \* per project: "unrequested" | "failed" | "parsed"
    order,           \* projects in the order their promises fulfilled
    setCount         \* calls of setIgs

vars == <<phase, projects, remote, pc, locals, allIgs, igs, repoQueries,
          manifestFetches, manifestResult, nowReads, order, setCount>>

---------------------------------------------------------------------------
(* Bounds of the model *)

MaxProjects == 2
MaxTags == 2
MaxEntries == 2
MaxBranches == 2

(* Program constants *)

MAX_DAYS == 90
MsPerDay == 1000 * 60 * 60 * 24

Null == "null"
Pending == [pending |-> TRUE]

---------------------------------------------------------------------------
(* Sequences *)

SeqUpTo(S, n) == UNION {[1..k -> S] : k \in 0..n}

Includes(s, x) == \E k \in 1..Len(s) : s[k] = x

RECURSIVE SetFrom(_, _)
SetFrom(s, acc) ==
    IF s = <<>> THEN acc
    ELSE SetFrom(Tail(s), IF Includes(acc, Head(s)) THEN acc ELSE Append(acc, Head(s)))

(* Array.from(new Set(s)): the distinct elements in first-insertion order *)
ArrayFromSet(s) == SetFrom(s, <<>>)

---------------------------------------------------------------------------
(* Version strings *)

ToLowerChar(c) ==
    CASE c = "C" -> "c"
      [] c = "V" -> "v"
      [] c = "U" -> "u"
      [] c = "R" -> "r"
      [] c = "E" -> "e"
      [] c = "N" -> "n"
      [] c = "T" -> "t"
      [] OTHER -> c

ToLowerCase(s) == [k \in 1..Len(s) |-> ToLowerChar(s[k])]

(* s.replace(/^v/, ""): the pattern is case-sensitive and matches once *)
StripV(s) == IF Len(s) > 0 /\ s[1] = "v" THEN Tail(s) ELSE s

current == <<"c", "u", "r", "r", "e", "n", "t">>
vcurrent == <<"v">> \o current

(* ["current", "vcurrent"].includes(v.toLowerCase()) *)
IsSentinel(v) == ToLowerCase(v) \in {current, vcurrent}

(* tagVersions: strip, then filter *)
TagVersions(tagNames) ==
    LET NotSentinel(v) == ~IsSentinel(v)
        stripped == [k \in 1..Len(tagNames) |-> StripV(tagNames[k])]
    IN  SelectSeq(stripped, NotSentinel)

(* publishedEntries: filter (version truthy and not a sentinel), then strip *)
PublishedEntries(list) ==
    LET Keep(e) == e.version # <<>> /\ ~IsSentinel(e.version)
        kept == SelectSeq(list, Keep)
    IN  [k \in 1..Len(kept) |->
            [version |-> StripV(kept[k].version), publishedUrl |-> kept[k].path]]

PublishedVersions(publishedEntries) ==
    [k \in 1..Len(publishedEntries) |-> publishedEntries[k].version]

AllVersionsConcat(tagVersions, publishedVersions) == tagVersions \o publishedVersions

AllVersions(tagVersions, publishedVersions) ==
    ArrayFromSet(tagVersions \o publishedVersions)

HasTagHardCoded(tagVersions, version) == TRUE

HasTag(tagVersions, version) == Includes(tagVersions, version)

(* publishedEntries.find(e => e.version === version): the first match *)
FindPublishedUrl(publishedEntries, version) ==
    LET hits == {k \in 1..Len(publishedEntries) : publishedEntries[k].version = version}
    IN  IF hits = {} THEN Null
        ELSE publishedEntries[CHOOSE k \in hits : \A m \in hits : k <= m].publishedUrl

Versions(tagVersions, publishedEntries) ==
    LET allVersions == AllVersions(tagVersions, PublishedVersions(publishedEntries))
    IN  [k \in 1..Len(allVersions) |->
            [version |-> allVersions[k],
             hasTag |-> HasTag(tagVersions, allVersions[k]),
             publishedUrl |-> FindPublishedUrl(publishedEntries, allVersions[k])]]

---------------------------------------------------------------------------
(* Timestamps and branches *)

Time(d, ms) == [d |-> d, ms |-> ms]

(* a - b in milliseconds, the rest kept in 0 .. MsPerDay - 1 *)
Minus(a, b) ==
    IF a.ms >= b.ms THEN [d |-> a.d - b.d, ms |-> a.ms - b.ms]
    ELSE [d |-> a.d - b.d - 1, ms |-> a.ms - b.ms + MsPerDay]

(* Math.floor((now - commitDate) / (1000 * 60 * 60 * 24)) *)
DaysSince(now, commitDate) == Minus(now, commitDate).d

IsStaleInclusive(daysSince, name, defaultBranchName) ==
    daysSince >= MAX_DAYS /\ name # defaultBranchName

IsStale(daysSince, name, defaultBranchName) ==
    daysSince > MAX_DAYS /\ name # defaultBranchName

KeepEveryBranch(node) == TRUE

KeepBranch(node) == node.name # "gh-pages"

BranchNodes(repo) == SelectSeq(repo.branches, KeepBranch)

(* the .map over the kept nodes; nows[k] is the Date.now() read for node k *)
Branches(repo, defaultBranchName, nows) ==
    LET nodes == BranchNodes(repo)
    IN  [k \in 1..Len(nodes) |->
            LET daysSince == DaysSince(nows[k], nodes[k].committedDate)
            IN  [name |-> nodes[k].name,
                 daysSince |-> daysSince,
                 isDefault |-> nodes[k].name = defaultBranchName,
                 isStale |-> IsStale(daysSince, nodes[k].name, defaultBranchName)]]

(* repo.defaultBranchRef?.name || "" *)
DefaultBranchName(repo) ==
    IF repo.defaultBranchRef = <<>> THEN "" ELSE repo.defaultBranchRef[1].name

(* the default branch's commit date, or no date: a sequence of at most one *)
DefaultCommitDate(repo) ==
    IF repo.defaultBranchRef = <<>> THEN <<>>
    ELSE <<repo.defaultBranchRef[1].committedDate>>

---------------------------------------------------------------------------
(* Records *)

HealthyRecord(ig, lc, publishedEntries) ==
    [name |-> ig.name, repo |-> ig.repo, published |-> ig.published,
     html_url |-> lc.url,
     default_branch |-> lc.defaultBranchName,
     last_commit |-> lc.defaultCommitDate,
     branches |-> lc.branches,
     versions |-> Versions(lc.tagVersions, publishedEntries),
     publishedVersions |-> publishedEntries,
     ciBuildUrl |-> <<"https://", ig.repo[1], ".github.io/", ig.repo[2], "/">>]

DegradedRecordAnonymous(ig) ==
    [name |-> "", repo |-> <<"", "">>, published |-> "none",
     html_url |-> "", default_branch |-> "", last_commit |-> <<>>,
     branches |-> <<>>, versions |-> <<>>, publishedVersions |-> <<>>]

DegradedRecord(ig) ==
    [name |-> ig.name, repo |-> ig.repo, published |-> ig.published,
     html_url |-> "", default_branch |-> "", last_commit |-> <<>>,
     branches |-> <<>>, versions |-> <<>>, publishedVersions |-> <<>>]

(* new URL(published) throws on a string that is no URL *)
GetProxiedUrlThrows(published) == published = "invalid"

---------------------------------------------------------------------------
(* What the endpoints can hold *)

V1 == <<"v", "1">>
V2 == <<"v", "2">>
V3 == <<"v", "3">>
Bare1 == <<"1">>
VCurrent == <<"v", "C", "u", "r", "r", "e", "n", "t">>
VVcurrent == <<"v">> \o vcurrent

TagPool == {V1, Bare1, V2, VCurrent, VVcurrent}

EntryPool ==
    {[version |-> V1, path |-> "/p/1"],
     [version |-> Bare1, path |-> "/q/1"],
     [version |-> V3, path |-> "/p/3"],
     [version |-> VCurrent, path |-> "/p/current"],
     [version |-> VVcurrent, path |-> "/p/vcurrent"],
     [version |-> <<>>, path |-> "/p/none"]}

NowPool == {Time(300, 0), Time(300, 1)}

CommitPool == {Time(210, 0), Time(209, 1), Time(100, 0), Time(300, 1)}

BranchPool ==
    [name : {"main", "gh-pages", "feature-x"}, committedDate : CommitPool]

DefaultRefPool ==
    {<<>>} \cup {<<[name |-> n, committedDate |-> Time(290, 0)]>> : n \in {"main", "gh-pages"}}

Alpha == [name |-> "Alpha", repo |-> <<"who", "alpha">>, published |-> "https://smart.who.int/alpha"]
Beta == [name |-> "Beta", repo |-> <<"who", "beta">>, published |-> "none"]
Gamma == [name |-> "Gamma", repo |-> <<"who", "gamma">>, published |-> "invalid"]

ProjectPool == {Alpha, Beta, Gamma}

Repo(ref, branches, tags) ==
    [defaultBranchRef |-> ref, branches |-> branches, tags |-> tags,
     url |-> "https://github.com/who/ig"]

FleetRemote ==
    [repo |-> Repo(<<[name |-> "main", committedDate |-> Time(290, 0)]>>,
                   <<[name |-> "gh-pages", committedDate |-> Time(299, 0)],
                     [name |-> "main", committedDate |-> Time(290, 0)]>>,
                   <<V1, V2>>),
     manifest |-> <<[version |-> V1, path |-> "/p/1"]>>]

FleetRemoteOld ==
    [repo |-> Repo(<<>>,
                   <<[name |-> "feature-x", committedDate |-> Time(100, 0)]>>,
                   <<Bare1>>),
     manifest |-> <<[version |-> V3, path |-> "/p/3"]>>]

FleetRemotes == {FleetRemote, FleetRemoteOld}

---------------------------------------------------------------------------
(* State after construction: useState([]) and nothing started *)

Idx == 1..Len(projects)

NoLocals ==
    [defaultBranchName |-> "", defaultCommitDate |-> <<>>, branches |-> <<>>,
     tagVersions |-> <<>>, url |-> ""]

Start(ps, rem) ==
    /\ projects = ps
    /\ remote = rem
    /\ phase = "config"
    /\ pc = [i \in 1..Len(ps) |-> "idle"]
    /\ locals = [i \in 1..Len(ps) |-> NoLocals]
    /\ allIgs = [i \in 1..Len(ps) |-> Pending]
    /\ igs = <<>>
    /\ repoQueries = [i \in 1..Len(ps) |-> 0]
    /\ manifestFetches = [i \in 1..Len(ps) |-> 0]
    /\ manifestResult = [i \in 1..Len(ps) |-> "unrequested"]
    /\ nowReads = [i \in 1..Len(ps) |-> <<>>]
    /\ order = <<>>
    /\ setCount = 0

(* a fleet of up to MaxProjects projects, each with one of two repositories *)
Init ==
    \E ps \in SeqUpTo(ProjectPool, MaxProjects) :
        \E rem \in [1..Len(ps) -> FleetRemotes] : Start(ps, rem)

(* one project, every tag list and every package list within the bounds *)
InitVersions ==
    \E tags \in SeqUpTo(TagPool, MaxTags), list \in SeqUpTo(EntryPool, MaxEntries) :
        Start(<<Alpha>>, <<[repo |-> Repo(<<>>, <<>>, tags), manifest |-> list]>>)

(* one project, every branch list and default branch within the bounds *)
InitBranches ==
    \E ref \in DefaultRefPool, nodes \in SeqUpTo(BranchPool, MaxBranches) :
        Start(<<Alpha>>, <<[repo |-> Repo(ref, nodes, <<V1>>),
                            manifest |-> <<[version |-> V1, path |-> "/p/1"]>>]>>)

---------------------------------------------------------------------------
(* The per-project callback of config.igs.map *)

(* the variables computed between the repository answer and the manifest fetch *)
ComputeLocals(repo, nows) ==
    [defaultBranchName |-> DefaultBranchName(repo),
     defaultCommitDate |-> DefaultCommitDate(repo),
     branches |-> Branches(repo, DefaultBranchName(repo), nows),
     tagVersions |-> TagVersions(repo.tags),
     url |-> repo.url]

ResultSlotByCompletion(i, done) == Len(done) + 1

(* Promise.all puts each value at the index of its promise *)
ResultSlot(i, done) == i

Fulfil(i, rec) ==
    /\ allIgs' = [allIgs EXCEPT ![ResultSlot(i, order)] = rec]
    /\ order' = Append(order, i)

(* the return of the try block *)
Return(i, lc, publishedEntries, outcome) ==
    /\ pc' = [pc EXCEPT ![i] = "returned"]
    /\ manifestResult' = [manifestResult EXCEPT ![i] = outcome]
    /\ Fulfil(i, HealthyRecord(projects[i], lc, publishedEntries))

(* the outer catch *)
Catch(i) ==
    /\ pc' = [pc EXCEPT ![i] = "caught"]
    /\ Fulfil(i, DegradedRecord(projects[i]))

(* loadData up to Promise.all: every callback runs to its first await *)
LoadConfigOk ==
    /\ phase = "config"
    /\ phase' = "gather"
    /\ pc' = [i \in Idx |-> "repoFetch"]
    /\ repoQueries' = [i \in Idx |-> repoQueries[i] + 1]
    /\ UNCHANGED <<projects, remote, locals, allIgs, igs, manifestFetches,
                   manifestResult, nowReads, order, setCount>>

(* igs.yaml cannot be fetched or parsed: loadData rejects *)
LoadConfigFail ==
    /\ phase = "config"
    /\ phase' = "failed"
    /\ UNCHANGED <<projects, remote, pc, locals, allIgs, igs, repoQueries,
                   manifestFetches, manifestResult, nowReads, order, setCount>>

RepoFetchRejectRetry(i) ==
    /\ pc[i] = "repoFetch"
    /\ repoQueries[i] < 2
    /\ repoQueries' = [repoQueries EXCEPT ![i] = @ + 1]
    /\ UNCHANGED <<phase, projects, remote, pc, locals, allIgs, igs,
                   manifestFetches, manifestResult, nowReads, order, setCount>>

(* the GraphQL fetch rejects *)
RepoFetchReject(i) ==
    /\ pc[i] = "repoFetch"
    /\ Catch(i)
    /\ UNCHANGED <<phase, projects, remote, locals, igs, repoQueries,
                   manifestFetches, manifestResult, nowReads, setCount>>

(* the GraphQL fetch resolves; the callback awaits res.json() *)
RepoFetchResolve(i) ==
    /\ pc[i] = "repoFetch"
    /\ pc' = [pc EXCEPT ![i] = "repoJson"]
    /\ UNCHANGED <<phase, projects, remote, locals, allIgs, igs, repoQueries,
                   manifestFetches, manifestResult, nowReads, order, setCount>>

(* res.json() rejects: the body is no JSON *)
RepoJsonReject(i) ==
    /\ pc[i] = "repoJson"
    /\ Catch(i)
    /\ UNCHANGED <<phase, projects, remote, locals, igs, repoQueries,
                   manifestFetches, manifestResult, nowReads, setCount>>

(* result.data?.repository is missing: "Repo not found" is thrown *)
RepoJsonNoRepo(i) ==
    /\ pc[i] = "repoJson"
    /\ Catch(i)
    /\ UNCHANGED <<phase, projects, remote, locals, igs, repoQueries,
                   manifestFetches, manifestResult, nowReads, setCount>>

(* the repository is there: classify, normalize the tags, then either fetch
   the package list or, with none to fetch, reconcile and return *)
RepoJsonOk(i) ==
    /\ pc[i] = "repoJson"
    /\ \E nows \in [1..Len(BranchNodes(remote[i].repo)) -> NowPool] :
         LET lc == ComputeLocals(remote[i].repo, nows)
         IN  /\ nowReads' = [nowReads EXCEPT ![i] = nows]
             /\ locals' = [locals EXCEPT ![i] = lc]
             /\ IF projects[i].published = "none"
                    \/ GetProxiedUrlThrows(projects[i].published)
                THEN /\ Return(i, lc, <<>>, "unrequested")
                     /\ UNCHANGED manifestFetches
                ELSE /\ pc' = [pc EXCEPT ![i] = "manifestFetch"]
                     /\ manifestFetches' = [manifestFetches EXCEPT ![i] = @ + 1]
                     /\ UNCHANGED <<allIgs, order, manifestResult>>
    /\ UNCHANGED <<phase, projects, remote, igs, repoQueries, setCount>>

ManifestRejectUncaught(i) ==
    /\ pc[i] = "manifestFetch"
    /\ manifestResult' = [manifestResult EXCEPT ![i] = "failed"]
    /\ Catch(i)
    /\ UNCHANGED <<phase, projects, remote, locals, igs, repoQueries,
                   manifestFetches, nowReads, setCount>>

(* the package-list fetch rejects: caught by the inner try *)
ManifestReject(i) ==
    /\ pc[i] = "manifestFetch"
    /\ Return(i, locals[i], <<>>, "failed")
    /\ UNCHANGED <<phase, projects, remote, locals, igs, repoQueries,
                   manifestFetches, nowReads, setCount>>

(* the package-list fetch resolves with res2.ok false *)
ManifestNotOk(i) ==
    /\ pc[i] = "manifestFetch"
    /\ Return(i, locals[i], <<>>, "failed")
    /\ UNCHANGED <<phase, projects, remote, locals, igs, repoQueries,
                   manifestFetches, nowReads, setCount>>

(* res2.ok: the callback awaits res2.json() *)
ManifestOk(i) ==
    /\ pc[i] = "manifestFetch"
    /\ pc' = [pc EXCEPT ![i] = "manifestJson"]
    /\ UNCHANGED <<phase, projects, remote, locals, allIgs, igs, repoQueries,
                   manifestFetches, manifestResult, nowReads, order, setCount>>

(* res2.json() rejects: caught by the inner try *)
ManifestJsonReject(i) ==
    /\ pc[i] = "manifestJson"
    /\ Return(i, locals[i], <<>>, "failed")
    /\ UNCHANGED <<phase, projects, remote, locals, igs, repoQueries,
                   manifestFetches, nowReads, setCount>>

(* the JSON has no list of versions: json.list.filter throws, caught inside *)
ManifestJsonMalformed(i) ==
    /\ pc[i] = "manifestJson"
    /\ Return(i, locals[i], <<>>, "failed")
    /\ UNCHANGED <<phase, projects, remote, locals, igs, repoQueries,
                   manifestFetches, nowReads, setCount>>

(* the JSON holds the list *)
ManifestJsonList(i) ==
    /\ pc[i] = "manifestJson"
    /\ Return(i, locals[i], PublishedEntries(remote[i].manifest), "parsed")
    /\ UNCHANGED <<phase, projects, remote, locals, igs, repoQueries,
                   manifestFetches, nowReads, setCount>>

GatherDoneEarly == \E i \in Idx : pc[i] \in {"returned", "caught"}

(* Promise.all fulfils once every promise has *)
GatherDone == \A i \in Idx : pc[i] \in {"returned", "caught"}

(* setIgs(allIgs) *)
SetIgs ==
    /\ phase = "gather"
    /\ GatherDone
    /\ phase' = "shown"
    /\ igs' = [i \in Idx |-> allIgs[i]]
    /\ setCount' = setCount + 1
    /\ UNCHANGED <<projects, remote, pc, locals, allIgs, repoQueries,
                   manifestFetches, manifestResult, nowReads, order>>

Next ==
    \/ LoadConfigOk
    \/ LoadConfigFail
    \/ \E i \in Idx : RepoFetchReject(i)
    \/ \E i \in Idx : RepoFetchResolve(i)
    \/ \E i \in Idx : RepoJsonReject(i)
    \/ \E i \in Idx : RepoJsonNoRepo(i)
    \/ \E i \in Idx : RepoJsonOk(i)
    \/ \E i \in Idx : ManifestReject(i)
    \/ \E i \in Idx : ManifestNotOk(i)
    \/ \E i \in Idx : ManifestOk(i)
    \/ \E i \in Idx : ManifestJsonReject(i)
    \/ \E i \in Idx : ManifestJsonMalformed(i)
    \/ \E i \in Idx : ManifestJsonList(i)
    \/ SetIgs

Spec == Init /\ [][Next]_vars

SpecVersions == InitVersions /\ [][Next]_vars

SpecBranches == InitBranches /\ [][Next]_vars

---------------------------------------------------------------------------
(* Properties *)

Settled(i) == pc[i] \in {"returned", "caught"}

Range(s) == {s[k] : k \in 1..Len(s)}

(* the records project j can end with, given only its own configuration, its
   own repository answer, its own package list and its own clock reads *)
OwnRecords(j) ==
    IF pc[j] = "caught" THEN {DegradedRecord(projects[j])}
    ELSE {HealthyRecord(projects[j], ComputeLocals(remote[j].repo, nowReads[j]), pe) :
            pe \in {<<>>, PublishedEntries(remote[j].manifest)}}

(* C1: whatever the order in which the reads settle, a fulfilled slot i holds
   the name and repo of input project i, and the list handed over has the
   input's length with record i carrying project i's name and repo. *)
C1_OrderPreserved ==
    /\ \A i \in Idx : Settled(i) =>
          /\ allIgs[i] # Pending
          /\ allIgs[i].name = projects[i].name
          /\ allIgs[i].repo = projects[i].repo
    /\ phase = "shown" =>
          /\ Len(igs) = Len(projects)
          /\ \A i \in Idx : /\ igs[i].name = projects[i].name
                            /\ igs[i].repo = projects[i].repo

(* two different projects, the second finished first, and the list is shown *)
C1_Witness ==
    /\ phase = "shown"
    /\ Len(projects) >= 2
    /\ projects[1].name # projects[2].name
    /\ order[1] = 2
    /\ pc[1] = "returned"

(* C2: a project whose repository lookup failed has a record with its name
   and repo and empty branches, versions and publishedVersions; every settled
   project's record is one its own inputs determine; none is omitted. *)
C2_FailureIsolated ==
    /\ \A x \in Idx : pc[x] = "caught" =>
          /\ allIgs[x].name = projects[x].name
          /\ allIgs[x].repo = projects[x].repo
          /\ allIgs[x].branches = <<>>
          /\ allIgs[x].versions = <<>>
          /\ allIgs[x].publishedVersions = <<>>
    /\ \A j \in Idx : Settled(j) => allIgs[j] \in OwnRecords(j)
    /\ phase = "shown" => igs = [j \in Idx |-> allIgs[j]]

(* the first project's lookup failed, the second project's record is healthy *)
C2_Witness ==
    /\ phase = "shown"
    /\ Len(projects) >= 2
    /\ pc[1] = "caught"
    /\ pc[2] = "returned"
    /\ igs[2].branches # <<>>
    /\ igs[2].versions # <<>>

(* C3: a failed manifest fetch leaves the record healthy: publishedVersions
   is empty, branches, default branch and web URL are the repository's, and
   every tag version is in versions with hasTag and a null publishedUrl;
   the other projects' records are those their own inputs determine. *)
C3_ManifestFailureContained ==
    \A i \in Idx : manifestResult[i] = "failed" =>
        /\ pc[i] = "returned"
        /\ allIgs[i].publishedVersions = <<>>
        /\ allIgs[i].branches = locals[i].branches
        /\ Len(allIgs[i].branches) = Len(BranchNodes(remote[i].repo))
        /\ allIgs[i].default_branch = DefaultBranchName(remote[i].repo)
        /\ allIgs[i].html_url = remote[i].repo.url
        /\ \A v \in Range(TagVersions(remote[i].repo.tags)) :
              [version |-> v, hasTag |-> TRUE, publishedUrl |-> Null]
                  \in Range(allIgs[i].versions)
        /\ \A j \in Idx \ {i} : Settled(j) => allIgs[j] \in OwnRecords(j)

(* a manifest fetch failed for a project with tags and branches *)
C3_Witness ==
    \E i \in Idx :
        /\ manifestResult[i] = "failed"
        /\ pc[i] = "returned"
        /\ allIgs[i].versions # <<>>
        /\ allIgs[i].branches # <<>>

(* C4: the reconciled versions of a healthy record hold each identifier of
   the normalized tag set or of the published set exactly once. *)
C4_OnePerIdentifier ==
    \A i \in Idx : pc[i] = "returned" =>
        LET versions == allIgs[i].versions
            ids == Range(locals[i].tagVersions)
                   \cup {e.version : e \in Range(allIgs[i].publishedVersions)}
        IN  /\ {v.version : v \in Range(versions)} = ids
            /\ \A k, m \in 1..Len(versions) :
                  versions[k].version = versions[m].version => k = m

(* tags v1 and 1 and a manifest entry v1 all normalize to the one identifier *)
C4_Witness ==
    \E i \in Idx :
        /\ pc[i] = "returned"
        /\ remote[i].repo.tags = <<V1, Bare1>>
        /\ manifestResult[i] = "parsed"
        /\ remote[i].manifest = <<[version |-> V1, path |-> "/p/1"],
                                  [version |-> Bare1, path |-> "/q/1"]>>
        /\ Len(allIgs[i].versions) = 1

(* C5: no identifier of the normalized tag set, of publishedVersions or of
   the reconciled versions is current or vcurrent in any letter case. *)
C5_NoSentinel ==
    \A i \in Idx : pc[i] = "returned" =>
        /\ \A v \in Range(locals[i].tagVersions) : ~IsSentinel(v)
        /\ \A e \in Range(allIgs[i].publishedVersions) : ~IsSentinel(e.version)
        /\ \A v \in Range(allIgs[i].versions) : ~IsSentinel(v.version)

(* C6: in a healthy record hasTag says whether the identifier is in the
   normalized tag set, and publishedUrl is the path of the first published
   entry with that identifier, or null when there is none. *)
C6_Annotations ==
    \A i \in Idx : pc[i] = "returned" =>
        LET pub == allIgs[i].publishedVersions
        IN  \A v \in Range(allIgs[i].versions) :
              /\ v.hasTag <=> v.version \in Range(locals[i].tagVersions)
              /\ \/ /\ \A k \in 1..Len(pub) : pub[k].version # v.version
                    /\ v.publishedUrl = Null
                 \/ \E k \in 1..Len(pub) :
                      /\ pub[k].version = v.version
                      /\ \A m \in 1..(k - 1) : pub[m].version # v.version
                      /\ v.publishedUrl = pub[k].publishedUrl

(* one identifier in both, one in the tags only, one in the manifest only *)
C6_Witness ==
    \E i \in Idx :
        /\ pc[i] = "returned"
        /\ allIgs[i].versions =
              <<[version |-> <<"1">>, hasTag |-> TRUE, publishedUrl |-> "/p/1"],
                [version |-> <<"2">>, hasTag |-> TRUE, publishedUrl |-> Null],
                [version |-> <<"3">>, hasTag |-> FALSE, publishedUrl |-> "/p/3"]>>

(* C7: daysSince is the floor of (now - committedAt) / MsPerDay, isDefault
   says the name is the default branch's, and isStale is exactly
   (not isDefault) and daysSince > 90. *)
C7_Staleness ==
    \A i \in Idx : pc[i] = "returned" =>
        LET nodes == SelectSeq(remote[i].repo.branches,
                               LAMBDA n : n.name # "gh-pages")
            default == IF remote[i].repo.defaultBranchRef = <<>> THEN ""
                       ELSE remote[i].repo.defaultBranchRef[1].name
            Before(a, b) == a.d < b.d \/ (a.d = b.d /\ a.ms <= b.ms)
        IN  \A k \in 1..Len(allIgs[i].branches) :
              LET b == allIgs[i].branches[k]
                  c == nodes[k].committedDate
                  now == nowReads[i][k]
              IN  /\ Before([d |-> c.d + b.daysSince, ms |-> c.ms], now)
                  /\ ~Before([d |-> c.d + b.daysSince + 1, ms |-> c.ms], now)
                  /\ b.isDefault <=> (b.name = default)
                  /\ b.isStale <=> (~b.isDefault /\ b.daysSince > 90)

(* a non-default branch at exactly 90 days, not stale, beside one at 91, stale *)
C7_Witness ==
    \E i \in Idx :
        /\ pc[i] = "returned"
        /\ Len(allIgs[i].branches) = 2
        /\ allIgs[i].branches[1].daysSince = 90
        /\ ~allIgs[i].branches[1].isDefault
        /\ ~allIgs[i].branches[1].isStale
        /\ allIgs[i].branches[2].daysSince = 91
        /\ allIgs[i].branches[2].isStale

(* C8: no record lists a branch named gh-pages, and a healthy record lists
   every other raw branch once, in the raw order. *)
C8_NoGhPages ==
    \A i \in Idx : Settled(i) =>
        /\ \A b \in Range(allIgs[i].branches) : b.name # "gh-pages"
        /\ pc[i] = "returned" =>
              LET raw == remote[i].repo.branches
                  names == [k \in 1..Len(raw) |-> raw[k].name]
              IN  [k \in 1..Len(allIgs[i].branches) |-> allIgs[i].branches[k].name]
                      = SelectSeq(names, LAMBDA n : n # "gh-pages")

(* gh-pages is the default branch and is in the raw list, with another *)
C8_Witness ==
    \E i \in Idx :
        /\ pc[i] = "returned"
        /\ DefaultBranchName(remote[i].repo) = "gh-pages"
        /\ Len(remote[i].repo.branches) = 2
        /\ remote[i].repo.branches[1].name = "gh-pages"
        /\ Len(allIgs[i].branches) = 1

(* C9: one repository query per project once the load has started and never
   a second; at most one manifest fetch, only for a project that declares a
   manifest URL and whose repository query has succeeded; none for a
   project whose record is degraded. *)
C9_ReadProtocol ==
    \A i \in Idx :
        /\ repoQueries[i] = IF phase \in {"config", "failed"} THEN 0 ELSE 1
        /\ manifestFetches[i] <= 1
        /\ manifestFetches[i] = 1 =>
              /\ projects[i].published # "none"
              /\ pc[i] \in {"manifestFetch", "manifestJson", "returned"}
        /\ pc[i] \in {"manifestFetch", "manifestJson"} => manifestFetches[i] = 1
        /\ pc[i] = "caught" => manifestFetches[i] = 0
        /\ projects[i].published = "none" => manifestFetches[i] = 0

(* one project settled after a failed manifest fetch, another degraded *)
C9_Witness ==
    \E i, j \in Idx :
        /\ pc[i] = "returned" /\ manifestResult[i] = "failed"
        /\ manifestFetches[i] = 1
        /\ pc[j] = "caught" /\ projects[j].published # "none"

(* C10: setIgs is called at most once, only when every project has settled:
   the visible list is empty or the complete result. *)
C10_AllOrNothing ==
    /\ setCount <= 1
    /\ (setCount = 1) <=> (phase = "shown")
    /\ \/ igs = <<>>
       \/ /\ \A i \in Idx : pc[i] \in {"returned", "caught"}
          /\ Len(igs) = Len(projects)
          /\ \A i \in Idx : igs[i] = allIgs[i]
    /\ (\E i \in Idx : pc[i] \notin {"returned", "caught"}) => igs = <<>>

(* one record is computed, another project's read is still out, nothing shows *)
C10_Witness ==
    \E i, j \in Idx :
        /\ pc[i] = "returned"
        /\ pc[j] = "repoFetch"
        /\ igs = <<>>
        /\ phase = "gather"

===========================================================================
